---- MODULE Spec2Model ----
(***************************************************************************)
(* Model of snakemake/deployment/docker.py: the Docker singleton (version  *)
(* probe of the nerdctl CLI), Image (construction and pull) and the pure   *)
(* function shellcmd.  Python strings are sequences of one-character       *)
(* strings, so that splitting, prefix tests, parsing and quoting are       *)
(* computed rather than assumed.                                           *)
(***************************************************************************)
EXTENDS Integers, Sequences, FiniteSets, TLC

VARIABLES instance, checked, _version, images, exists, cliIn, last,
          successSeen, okVersion, cmdIn, cmdOut

vars == <<instance, checked, _version, images, exists, cliIn, last,
          successSeen, okVersion, cmdIn, cmdOut>>

(* ---------------------------- bounds ----------------------------------- *)
MaxSegs == 3
MaxCmdLen == 3

(* ------------------------- string helpers ------------------------------ *)
DigitChars == <<"0","1","2","3","4","5","6","7","8","9">>
LowerChars == {"a","b","c","d","e","f","g","h","i","j","k","l","m","n","o",
               "p","q","r","s","t","u","v","w","x","y","z"}
\* the characters used by the model, in code-point order
CharTable == <<"\n"," ","'","-",".","/","0","1","2","3","4","5","6","7","8",
               "9",":","=","A","C","D","E","K","N","O","R","V","\\","_",
               "a","b","c","d","e","f","g","h","i","j","k","l","m","n","o",
               "p","q","r","s","t","u","v","w","x","y","z">>
ord(c) == CHOOSE i \in 1..Len(CharTable) : CharTable[i] = c

IsDigit(c) == \E i \in 1..10 : DigitChars[i] = c
DigitVal(c) == (CHOOSE i \in 1..10 : DigitChars[i] = c) - 1

None == <<>>
Some(x) == <<x>>

startswith(s, p) == Len(s) >= Len(p) /\ SubSeq(s, 1, Len(p)) = p

contains(s, p) ==
  \E i \in 1..(Len(s) + 1) :
     i + Len(p) - 1 <= Len(s) /\ SubSeq(s, i, i + Len(p) - 1) = p

\* s.rsplit(" ", 1)[-1]: the text after the last space, all of s without one
rsplit_last(s) ==
  LET sp == {i \in 1..Len(s) : s[i] = " "}
  IN IF sp = {} THEN s
     ELSE LET k == CHOOSE i \in sp : \A j \in sp : j <= i
          IN SubSeq(s, k + 1, Len(s))

\* p.split("/")[-1], which is os.path.split(p)[-1] on a POSIX host
basename(s) ==
  LET sl == {i \in 1..Len(s) : s[i] = "/"}
  IN IF sl = {} THEN s
     ELSE LET k == CHOOSE i \in sl : \A j \in sl : j <= i
          IN SubSeq(s, k + 1, Len(s))

(* ------------------- distutils LooseVersion ---------------------------- *)
CharClass(c) == IF IsDigit(c) THEN "d"
                ELSE IF c \in LowerChars THEN "a"
                ELSE IF c = "." THEN "."
                ELSE "o"

RECURSIVE ToInt(_)
ToInt(s) == IF s = <<>> THEN 0
            ELSE 10 * ToInt(SubSeq(s, 1, Len(s) - 1)) + DigitVal(s[Len(s)])

\* length of the longest prefix of s made of characters of the class of s[1]
RunLen(s) ==
  IF CharClass(s[1]) = "." THEN 1
  ELSE CHOOSE k \in 1..Len(s) :
         /\ \A i \in 1..k : CharClass(s[i]) = CharClass(s[1])
         /\ (k < Len(s) => CharClass(s[k + 1]) # CharClass(s[1]))

Component(run) ==
  IF CharClass(run[1]) = "d"
  THEN [num |-> TRUE, n |-> ToInt(run), s |-> <<>>]
  ELSE [num |-> FALSE, n |-> 0, s |-> run]

\* LooseVersion.parse: digit runs become ints, letter runs and other text
\* stay strings, dots are dropped
RECURSIVE LooseVersion(_)
LooseVersion(s) ==
  IF s = <<>> THEN <<>>
  ELSE LET k == RunLen(s)
           rest == LooseVersion(SubSeq(s, k + 1, Len(s)))
       IN IF CharClass(s[1]) = "." THEN rest
          ELSE <<Component(SubSeq(s, 1, k))>> \o rest

RECURSIVE StrLess(_, _)
StrLess(a, b) ==
  IF b = <<>> THEN FALSE
  ELSE IF a = <<>> THEN TRUE
  ELSE IF a[1] # b[1] THEN ord(a[1]) < ord(b[1])
  ELSE StrLess(Tail(a), Tail(b))

\* Python 3 list comparison of two component lists: "lt", "eq", "gt", or
\* "TypeError" when the first differing pair is an int and a str
RECURSIVE Cmp(_, _)
Cmp(a, b) ==
  IF a = <<>> /\ b = <<>> THEN "eq"
  ELSE IF a = <<>> THEN "lt"
  ELSE IF b = <<>> THEN "gt"
  ELSE IF a[1] = b[1] THEN Cmp(Tail(a), Tail(b))
  ELSE IF a[1].num /\ b[1].num
       THEN (IF a[1].n < b[1].n THEN "lt" ELSE "gt")
  ELSE IF a[1].num # b[1].num THEN "TypeError"
  ELSE IF StrLess(a[1].s, b[1].s) THEN "lt" ELSE "gt"

MinApptainer == <<"1", ".", "0", ".", "0">>
MinDocker == <<"0", ".", "2", "2", ".", "2">>
Apptainer == <<"a","p","p","t","a","i","n","e","r">>

\* the outcome of `not LooseVersion(v) >= LooseVersion(m)` guarding a raise
GeOutcome(v, m) ==
  LET c == Cmp(LooseVersion(v), LooseVersion(m))
  IN IF c = "TypeError" THEN "TypeError"
     ELSE IF c = "lt" THEN "UnsupportedVersion"
     ELSE "ok"

\* Variant: one minimum, 0.22.2, for both runtime families.
CheckVersion_OneMin(out) ==
  LET v == rsplit_last(out)
  IN IF startswith(out, Apptainer)
     THEN [result |-> GeOutcome(v, MinDocker), v |-> v]
     ELSE LET w == IF startswith(v, <<"v">>) THEN Tail(v) ELSE v
          IN [result |-> GeOutcome(w, MinDocker), v |-> w]

\* Docker.check, the version part: the token after the last space, the
\* family's minimum, the "v" stripped in the nerdctl family only
CheckVersion(out) ==
  LET v == rsplit_last(out)
  IN IF startswith(out, Apptainer)
     THEN [result |-> GeOutcome(v, MinApptainer), v |-> v]
     ELSE LET w == IF startswith(v, <<"v">>) THEN Tail(v) ELSE v
          IN [result |-> GeOutcome(w, MinDocker), v |-> w]

(* -------------------- the installed CLI (environment) ------------------ *)
SegVals == {0, 1, 2, 20, 22, 23}
Families == {"nerdctl", "apptainer", "bare"}

RECURSIVE SeqsUpTo(_)
SeqsUpTo(n) ==
  IF n = 0 THEN {<<>>}
  ELSE LET shorter == SeqsUpTo(n - 1)
       IN shorter \cup {Append(q, x) : q \in {r \in shorter : Len(r) = n - 1},
                                       x \in SegVals}

RECURSIVE Digits(_)
Digits(n) == IF n < 10 THEN <<DigitChars[n + 1]>>
             ELSE Digits(n \div 10) \o <<DigitChars[(n % 10) + 1]>>

RECURSIVE Dotted(_)
Dotted(segs) == IF Len(segs) = 1 THEN Digits(segs[1])
                ELSE Digits(segs[1]) \o <<".">> \o Dotted(Tail(segs))

FamilyPrefix(f) ==
  IF f = "nerdctl"
  THEN <<"n","e","r","d","c","t","l"," ","v","e","r","s","i","o","n"," ">>
  ELSE IF f = "apptainer"
  THEN Apptainer \o <<" ","v","e","r","s","i","o","n"," ">>
  ELSE <<>>

\* what `nerdctl --version` prints for an installed CLI c: the family's
\* banner, an optional "v", the dotted version, an optional suffix
CliOutput(c) ==
  FamilyPrefix(c.family) \o (IF c.v THEN <<"v">> ELSE <<>>)
     \o Dotted(c.segs) \o c.suffix

Suffixes == {<<>>, <<"\n">>}

AllCli == [family : Families, v : BOOLEAN,
           segs : SeqsUpTo(MaxSegs) \ {<<>>}, suffix : Suffixes]

Cli(f, v, segs, suffix) ==
  [family |-> f, v |-> v, segs |-> segs, suffix |-> suffix]

MainCli == { Cli("bare", TRUE, <<0, 22, 2>>, <<>>),
             Cli("bare", FALSE, <<0, 20, 0>>, <<>>),
             Cli("nerdctl", FALSE, <<1, 2, 0>>, <<"\n">>),
             Cli("apptainer", FALSE, <<1, 0, 0>>, <<>>) }

(* ------------------------------ URLs ----------------------------------- *)
UrlLocal == <<"f","i","l","e",":","/","a">>
UrlRemote == <<"d","o","c","k","e","r",":","b">>
UrlRemoteSpace == <<"d","o","c","k","e","r",":"," ","b">>
UrlLocalSpace == <<"f","i","l","e",":","/","a"," ","b">>
Urls == {UrlLocal, UrlRemote, UrlRemoteSpace, UrlLocalSpace}

HasSpace(url) == \E i \in 1..Len(url) : url[i] = " "

\* snakemake.common.is_local_file: the URL's scheme is "file"
is_local(url) == startswith(url, <<"f","i","l","e",":">>)

\* Image.path: the URI's path for a local URL, else <img_dir>/<md5(url)>.simg
\* (md5 is injective on the URLs of the model, so the URL stands for it)
path(url) == IF is_local(url) THEN [kind |-> "uri_path", of |-> url]
             ELSE [kind |-> "simg", of |-> url]

Paths == {path(u) : u \in {v \in Urls : ~HasSpace(v)}}

(* ------------------------- call records -------------------------------- *)
\* what the last call did: the steps it went through in order, the exit
\* codes of the subprocesses it spawned (-1: not spawned), its outcome and
\* the outcome chk of the check() it made ("none" without one)
Call(op, url, dryrun, result, chk, steps, probe_rc, pull_rc, existed, value) ==
  [op |-> op, url |-> url, dryrun |-> dryrun, result |-> result,
   chk |-> chk, steps |-> steps, probe_rc |-> probe_rc, pull_rc |-> pull_rc,
   existed |-> existed, value |-> value]

NoCall == Call("none", <<>>, FALSE, "ok", "none", <<>>, -1, -1, FALSE, None)
EnvCall == Call("env", <<>>, FALSE, "ok", "none", <<>>, -1, -1, FALSE, None)

Count(steps, e) == Cardinality({i \in 1..Len(steps) : steps[i] = e})
Spawns(steps) == Count(steps, "spawn_version") + Count(steps, "spawn_pull")

(* ----------------------------- Docker ---------------------------------- *)
\* Docker.check as a function of the singleton's fields and of what the
\* environment answers: is nerdctl on the PATH, the probe's exit code and
\* its output.  `checked` is read and never assigned.
check(chk, ver, found, rc, out) ==
  IF chk
  THEN [result |-> "ok", steps |-> <<>>, probe_rc |-> -1, version |-> ver]
  ELSE IF ~found
  THEN [result |-> "ToolingUnavailable", steps |-> <<"which">>,
        probe_rc |-> -1, version |-> ver]
  ELSE IF rc # 0
  THEN [result |-> "ToolingUnavailable",
        steps |-> <<"which", "spawn_version">>,
        probe_rc |-> rc, version |-> ver]
  ELSE LET r == CheckVersion(out)
       IN [result |-> r.result, steps |-> <<"which", "spawn_version">>,
           probe_rc |-> rc,
           version |-> IF r.result = "ok" THEN Some(r.v) ELSE ver]

(* ------------------------------ Image ---------------------------------- *)
PullResult(result, steps, pull_rc) ==
  [result |-> result, steps |-> steps, pull_rc |-> pull_rc]

\* Variant: the existence of the path is not tested before pulling.
pull_NoExistsTest(url, dryrun, c, pathExists, rc) ==
  LET s0 == <<"check">> \o c.steps
  IN IF c.result # "ok" THEN PullResult(c.result, s0, -1)
     ELSE IF is_local(url) THEN PullResult("ok", s0 \o <<"is_local">>, -1)
     ELSE IF dryrun
     THEN PullResult("ok", s0 \o <<"is_local", "dryrun">>, -1)
     ELSE PullResult(IF rc # 0 THEN "PullFailed" ELSE "ok",
                     s0 \o <<"is_local", "dryrun", "spawn_pull">>, rc)

\* Variant: the local test is missing.
pull_NoLocalTest(url, dryrun, c, pathExists, rc) ==
  LET s0 == <<"check">> \o c.steps
  IN IF c.result # "ok" THEN PullResult(c.result, s0, -1)
     ELSE IF dryrun THEN PullResult("ok", s0 \o <<"dryrun">>, -1)
     ELSE IF pathExists
     THEN PullResult("ok", s0 \o <<"dryrun", "exists">>, -1)
     ELSE PullResult(IF rc # 0 THEN "PullFailed" ELSE "ok",
                     s0 \o <<"dryrun", "exists", "spawn_pull">>, rc)

\* Variant: a failed pull subprocess is logged and the call returns.
pull_Swallow(url, dryrun, c, pathExists, rc) ==
  LET s0 == <<"check">> \o c.steps
  IN IF c.result # "ok" THEN PullResult(c.result, s0, -1)
     ELSE IF is_local(url) THEN PullResult("ok", s0 \o <<"is_local">>, -1)
     ELSE IF dryrun
     THEN PullResult("ok", s0 \o <<"is_local", "dryrun">>, -1)
     ELSE IF pathExists
     THEN PullResult("ok", s0 \o <<"is_local", "dryrun", "exists">>, -1)
     ELSE PullResult("ok",
                     s0 \o <<"is_local", "dryrun", "exists", "spawn_pull">>,
                     rc)

\* Variant: the existence test comes before the dryrun test.
pull_ExistsFirst(url, dryrun, c, pathExists, rc) ==
  LET s0 == <<"check">> \o c.steps
  IN IF c.result # "ok" THEN PullResult(c.result, s0, -1)
     ELSE IF is_local(url) THEN PullResult("ok", s0 \o <<"is_local">>, -1)
     ELSE IF pathExists
     THEN PullResult("ok", s0 \o <<"is_local", "exists">>, -1)
     ELSE IF dryrun
     THEN PullResult("ok", s0 \o <<"is_local", "exists", "dryrun">>, -1)
     ELSE PullResult(IF rc # 0 THEN "PullFailed" ELSE "ok",
                     s0 \o <<"is_local", "exists", "dryrun", "spawn_pull">>,
                     rc)

\* Image.pull as a function of its arguments, of the outcome c of the
\* check() it starts with, and of the environment: does self.path exist,
\* the exit code of `nerdctl pull`
pull(url, dryrun, c, pathExists, rc) ==
  LET s0 == <<"check">> \o c.steps
  IN IF c.result # "ok" THEN PullResult(c.result, s0, -1)
     ELSE IF is_local(url) THEN PullResult("ok", s0 \o <<"is_local">>, -1)
     ELSE IF dryrun
     THEN PullResult("ok", s0 \o <<"is_local", "dryrun">>, -1)
     ELSE IF pathExists
     THEN PullResult("ok", s0 \o <<"is_local", "dryrun", "exists">>, -1)
     ELSE PullResult(IF rc # 0 THEN "PullFailed" ELSE "ok",
                     s0 \o <<"is_local", "dryrun", "exists", "spawn_pull">>,
                     rc)

(* ---------------------------- shellcmd --------------------------------- *)
PyNone == [t |-> "None", s |-> <<>>, items |-> <<>>]
PyStr(s) == [t |-> "str", s |-> s, items |-> <<>>]
PyDict(items) == [t |-> "dict", s |-> <<>>, items |-> items]
\* Python truthiness of None, a str and a dict
Truthy(x) == IF x.t = "None" THEN FALSE
             ELSE IF x.t = "str" THEN x.s # <<>>
             ELSE x.items # <<>>

DefaultCmdIn ==
  [img_path |-> <<"i">>, cmd |-> <<>>, args |-> <<>>, envvars |-> PyNone,
   shell_executable |-> PyNone, workdir_passed |-> FALSE,
   container_workdir |-> PyNone, is_python_script |-> FALSE]

SNAKEMAKE_MOUNTPOINT ==
  <<"/","m","n","t","/","s","n","a","k","e","m","a","k","e">>
\* snakemake.common.SNAKEMAKE_SEARCHPATH and os.getcwd() on the host
SNAKEMAKE_SEARCHPATH == <<"/","s","p">>
getcwd == <<"/","h">>

\* " ".join("DOCKERENV_{}={}".format(k, v) for k, v in envvars.items())
RECURSIVE JoinEnv(_)
JoinEnv(items) ==
  IF items = <<>> THEN <<>>
  ELSE LET one == <<"D","O","C","K","E","R","E","N","V","_">>
                    \o items[1][1] \o <<"=">> \o items[1][2]
       IN IF Len(items) = 1 THEN one
          ELSE one \o <<" ">> \o JoinEnv(Tail(items))

\* Variant: the quote is escaped with a backslash only.
replace_quote_Backslash(cmd) ==
  LET F[i \in 0..Len(cmd)] ==
        IF i = 0 THEN <<>>
        ELSE F[i - 1] \o (IF cmd[i] = "'" THEN <<"\\", "'">>
                          ELSE <<cmd[i]>>)
  IN F[Len(cmd)]

\* cmd.replace("'", r"'\''")
replace_quote(cmd) ==
  LET F[i \in 0..Len(cmd)] ==
        IF i = 0 THEN <<>>
        ELSE F[i - 1] \o (IF cmd[i] = "'" THEN <<"'", "\\", "'", "'">>
                          ELSE <<cmd[i]>>)
  IN F[Len(cmd)]

\* shellcmd(img_path, cmd, args, quiet, envvars, shell_executable,
\*          container_workdir, is_python_script); a.workdir_passed tells
\* whether the caller passed container_workdir, whose default is the
\* string "None"
shellcmd(a) ==
  LET container_workdir == IF a.workdir_passed THEN a.container_workdir
                           ELSE PyStr(<<"N","o","n","e">>)
      envvars == IF Truthy(a.envvars) THEN JoinEnv(a.envvars.items)
                 ELSE <<>>
      shell_executable == IF a.shell_executable.t = "None" THEN <<"s","h">>
                          ELSE basename(a.shell_executable.s)
      docker_cmd == <<"n","e","r","d","c","t","l">>
      args1 == IF a.is_python_script
               THEN a.args \o <<" ","-","-","b","i","n","d"," ">>
                      \o SNAKEMAKE_SEARCHPATH \o <<":">>
                      \o SNAKEMAKE_MOUNTPOINT
               ELSE a.args
      args2 == IF Truthy(container_workdir)
               THEN args1 \o <<" ","-","w"," ">> \o container_workdir.s
                      \o <<" ","-","v">> \o getcwd
                      \o <<":","/","d","a","t","a">>
               ELSE args1
  IN envvars \o <<" ">> \o docker_cmd
       \o <<" ","r","u","n"," ","-","-","r","m"," "," ">> \o args2
       \o <<" ">> \o a.img_path \o <<" ">> \o shell_executable
       \o <<" ","-","c"," ","'">> \o replace_quote(a.cmd) \o <<"'">>

cmdUnused == UNCHANGED <<cmdIn, cmdOut>>
history == <<successSeen, okVersion>>

(* ----------------------------- actions --------------------------------- *)
\* Docker(): __new__ returns the one instance, creating it the first time;
\* Python then runs __init__ on the object __new__ returned, every time
Docker_new ==
  /\ instance' = TRUE
  /\ checked' = FALSE
  /\ _version' = None

\* Variant: the singleton is obtained before the URL is validated.
Image_init_DockerFirst(url) ==
  /\ Docker_new
  /\ IF HasSpace(url)
     THEN /\ last' = Call("Image", url, FALSE, "InvalidReference", "none",
                          <<>>, -1, -1, FALSE, None)
          /\ UNCHANGED images
     ELSE /\ images' = images \cup {url}
          /\ last' = Call("Image", url, FALSE, "ok", "none", <<>>, -1, -1,
                          FALSE, None)
  /\ UNCHANGED <<exists, cliIn, history>>
  /\ cmdUnused

\* Image.__init__(url, dag, is_containerized)
Image_init(url) ==
  /\ IF HasSpace(url)
     THEN /\ last' = Call("Image", url, FALSE, "InvalidReference", "none",
                          <<>>, -1, -1, FALSE, None)
          /\ UNCHANGED <<instance, checked, _version, images>>
     ELSE /\ Docker_new
          /\ images' = images \cup {url}
          /\ last' = Call("Image", url, FALSE, "ok", "none", <<>>, -1, -1,
                          FALSE, None)
  /\ UNCHANGED <<exists, cliIn, history>>
  /\ cmdUnused

\* Docker() called by a user of the module
Docker_call ==
  /\ Docker_new
  /\ last' = Call("Docker", <<>>, FALSE, "ok", "none", <<>>, -1, -1, FALSE,
                  None)
  /\ UNCHANGED <<images, exists, cliIn, history>>
  /\ cmdUnused

\* Docker.check() on the singleton
Docker_check(found, rc) ==
  /\ instance
  /\ \E c \in {check(checked, _version, found, rc, CliOutput(cliIn))} :
        /\ _version' = c.version
        /\ last' = Call("check", <<>>, FALSE, c.result, c.result, c.steps,
                        c.probe_rc, -1, FALSE, None)
        /\ successSeen' = (successSeen \/ c.result = "ok")
        /\ okVersion' = IF c.result = "ok" THEN c.version ELSE okVersion
  /\ UNCHANGED <<instance, checked, images, exists, cliIn>>
  /\ cmdUnused

\* the `version` property of the singleton
Docker_version ==
  /\ instance
  /\ last' = Call("version", <<>>, FALSE,
                  IF _version # None THEN "ok" ELSE "AssertionError",
                  "none", <<>>, -1, -1, FALSE, _version)
  /\ UNCHANGED <<instance, checked, _version, images, exists, cliIn, history>>
  /\ cmdUnused

\* Image.pull(dryrun) on a constructed Image; after a pull subprocess that
\* exits zero the file may or may not be at self.path
Image_pull(url, dryrun, found, rc, pull_rc, appears) ==
  /\ url \in images
  /\ \E c \in {check(checked, _version, found, rc, CliOutput(cliIn))} :
     \E p \in {pull(url, dryrun, c, path(url) \in exists, pull_rc)} :
        /\ _version' = c.version
        /\ last' = Call("pull", url, dryrun, p.result, c.result, p.steps,
                        c.probe_rc, p.pull_rc, path(url) \in exists, None)
        /\ successSeen' = (successSeen \/ c.result = "ok")
        /\ okVersion' = IF c.result = "ok" THEN c.version ELSE okVersion
        /\ exists' = IF p.pull_rc = 0 /\ appears
                     THEN exists \cup {path(url)} ELSE exists
  /\ UNCHANGED <<instance, checked, images, cliIn>>
  /\ cmdUnused

\* the environment: a file appears or disappears
EnvFile(p) ==
  /\ exists' = IF p \in exists THEN exists \ {p} ELSE exists \cup {p}
  /\ last' = EnvCall
  /\ UNCHANGED <<instance, checked, _version, images, cliIn, history>>
  /\ cmdUnused

\* the environment: another CLI is installed
EnvInstall(c) ==
  /\ c # cliIn
  /\ cliIn' = c
  /\ last' = EnvCall
  /\ UNCHANGED <<instance, checked, _version, images, exists, history>>
  /\ cmdUnused

\* the environment's answers to a probe (on the PATH?, exit code) and to a
\* pull (exit code, is the file there afterwards?)
ProbeAnswers == {<<FALSE, 0>>, <<TRUE, 1>>, <<TRUE, 0>>}
PullAnswers == {<<1, FALSE>>, <<0, FALSE>>, <<0, TRUE>>}

Start ==
  /\ instance = FALSE
  /\ checked = FALSE
  /\ _version = None
  /\ images = {}
  /\ exists = {}
  /\ last = NoCall
  /\ successSeen = FALSE
  /\ okVersion = None
  /\ cmdOut = None

Init ==
  /\ Start
  /\ cliIn \in MainCli
  /\ cmdIn = DefaultCmdIn

Next ==
  \/ \E url \in Urls : Image_init(url)
  \/ Docker_call
  \/ \E pr \in ProbeAnswers : Docker_check(pr[1], pr[2])
  \/ Docker_version
  \/ \E url \in Urls, dryrun \in BOOLEAN, pr \in ProbeAnswers,
        pl \in PullAnswers :
        Image_pull(url, dryrun, pr[1], pr[2], pl[1], pl[2])
  \/ \E p \in Paths : EnvFile(p)
  \/ \E c \in MainCli : EnvInstall(c)

Spec == Init /\ [][Next]_vars

(* ------------- the version check over a range of CLIs ------------------ *)
InitCheck ==
  /\ Start
  /\ cliIn \in AllCli
  /\ cmdIn = DefaultCmdIn

NextCheck ==
  \/ Docker_call
  \/ \E pr \in ProbeAnswers : Docker_check(pr[1], pr[2])
  \/ Docker_version

SpecCheck == InitCheck /\ [][NextCheck]_vars

(* ---------------- shellcmd over a range of arguments ------------------- *)
CmdChars == {"a", "'", " ", "\\"}

RECURSIVE StringsUpTo(_)
StringsUpTo(n) ==
  IF n = 0 THEN {<<>>}
  ELSE LET shorter == StringsUpTo(n - 1)
       IN shorter \cup {Append(q, x) : q \in {r \in shorter : Len(r) = n - 1},
                                       x \in CmdChars}

EnvK == <<"K">>
EnvN == <<"N">>
CmdInputs ==
  [img_path : {<<"i">>},
   cmd : StringsUpTo(MaxCmdLen),
   args : {<<>>, <<"-","x">>},
   envvars : {PyNone, PyDict(<< <<EnvK, <<"v">>>> >>),
              PyDict(<< <<EnvK, <<"v">>>>, <<EnvN, <<"1">>>> >>)},
   shell_executable : {PyNone, PyStr(<<"/","b","i","n","/","b","a","s","h">>)},
   workdir_passed : BOOLEAN,
   container_workdir : {PyNone, PyStr(<<>>), PyStr(<<"/","w">>)},
   is_python_script : BOOLEAN]

InitCmd ==
  /\ Start
  /\ cliIn \in {Cli("bare", TRUE, <<0, 22, 2>>, <<>>)}
  /\ cmdIn \in {a \in CmdInputs :
                  ~a.workdir_passed => a.container_workdir = PyNone}

\* a call of shellcmd with the arguments cmdIn
Shellcmd ==
  /\ cmdOut = None
  /\ cmdOut' = Some(shellcmd(cmdIn))
  /\ UNCHANGED <<instance, checked, _version, images, exists, cliIn, last,
                 successSeen, okVersion, cmdIn>>

NextCmd == Shellcmd

SpecCmd == InitCmd /\ [][NextCmd]_vars

(* ======================= properties: Docker ============================ *)
ProbeCount(c) == Count(c.steps, "spawn_version")
PullCount(c) == Count(c.steps, "spawn_pull")

\* C1: once a check() has returned successfully, no later check(), direct
\* or at the start of a pull(), spawns the `--version` probe again.
C1_ProbeAtMostOnce ==
  [][(successSeen /\ last'.op \in {"check", "pull"})
       => ProbeCount(last') = 0]_vars

\* C2: after a check() has succeeded, in every later state a read of
\* `version` succeeds and returns the version that check() recorded.
C2_VersionStaysValid ==
  (successSeen /\ last.op = "version")
    => (last.result = "ok" /\ last.value = okVersion)

\* the reference order on dotted numeric versions: a >= b, segment by segment
SegsGE(a, b) ==
  LET m == IF Len(a) < Len(b) THEN Len(a) ELSE Len(b)
  IN \/ \E i \in 1..m : a[i] > b[i] /\ \A j \in 1..(i - 1) : a[j] = b[j]
     \/ Len(a) >= Len(b) /\ \A j \in 1..Len(b) : a[j] = b[j]

\* the CLIs whose version token is dotted numerals, with the "v" that the
\* nerdctl family may carry
PlainNumeric(c) == c.suffix = <<>> /\ ~(c.family = "apptainer" /\ c.v)

\* the same with the newline that ends the output, for versions of three
\* segments or more
NewlineEnded(c) ==
  c.suffix = <<"\n">> /\ Len(c.segs) >= 3 /\ ~(c.family = "apptainer" /\ c.v)

MinSegs(c) == IF c.family = "apptainer" THEN <<1, 0, 0>> ELSE <<0, 22, 2>>

ProbedOk == last.op = "check" /\ last.probe_rc = 0

CachedPull ==
  last.op = "pull" /\ ~is_local(last.url) /\ ~last.dryrun /\ last.existed

\* C3 as stated: a pull(dryrun=false) of a remote URL whose path exists
\* spawns no subprocess at all.
C3_NoSubprocessWhenCached == CachedPull => Spawns(last.steps) = 0

\* C3 amended: a pull(dryrun=false) of a remote URL whose path exists
\* spawns no pull subprocess and cannot fail with PullFailed; the one
\* subprocess it may spawn is the version probe of its check(), once.
C3_NoPullWhenCached ==
  CachedPull => /\ PullCount(last) = 0
                /\ ProbeCount(last) <= 1
                /\ last.pull_rc = -1
                /\ last.result # "PullFailed"

C3_Witness == CachedPull /\ last.result = "ok" /\ ProbeCount(last) = 1

LocalPull == last.op = "pull" /\ is_local(last.url)

\* C4 as stated: a pull() of a local URL spawns neither the version probe
\* nor the pull subcommand.
C4_LocalNeverSpawns == LocalPull => Spawns(last.steps) = 0

\* C4 amended: a pull() of a local URL never spawns the pull subcommand,
\* whatever dryrun and the history; the one subprocess it may spawn is the
\* version probe of the check() it starts with.
C4_LocalNeverPulls ==
  LocalPull => /\ PullCount(last) = 0
               /\ ProbeCount(last) <= 1
               /\ last.pull_rc = -1

C4_Witness ==
  LocalPull /\ ~last.dryrun /\ ~last.existed /\ last.result = "ok"
    /\ ProbeCount(last) = 1

\* C5: constructing an Image with a URL that contains a space fails with
\* InvalidReference, spawns nothing and leaves the singleton (its
\* existence, checked, _version) as it was.
C5_SpaceRejected ==
  [][(last'.op = "Image" /\ HasSpace(last'.url))
       => /\ last'.result = "InvalidReference"
          /\ last'.steps = <<>>
          /\ instance' = instance
          /\ checked' = checked
          /\ _version' = _version
          /\ images' = images]_vars

C5_Witness ==
  /\ last.op = "Image" /\ HasSpace(last.url)
  /\ last.result = "InvalidReference"
  /\ _version # None

\* C9: a pull subprocess that exits non-zero makes that pull() fail with
\* PullFailed after exactly one pull spawn; a failure of check() is the
\* failure of pull(); pull() returns normally only if its check() succeeded
\* and no subprocess it spawned exited non-zero.
C9_FailuresSurface ==
  last.op = "pull" =>
    /\ last.pull_rc > 0 => (last.result = "PullFailed" /\ PullCount(last) = 1)
    /\ PullCount(last) <= 1
    /\ last.chk # "ok" => last.result = last.chk
    /\ last.probe_rc > 0 => last.result = "ToolingUnavailable"
    /\ last.result = "ok" =>
         (last.chk = "ok" /\ last.probe_rc <= 0 /\ last.pull_rc <= 0)

C9_Witness ==
  last.op = "pull" /\ last.pull_rc = 1 /\ last.result = "PullFailed"

PullOrder == <<"check", "is_local", "dryrun", "exists", "spawn_pull">>
PullSteps(c) ==
  SelectSeq(c.steps, LAMBDA e : \E i \in 1..Len(PullOrder) : PullOrder[i] = e)

\* C10: within a pull(dryrun) the steps come in the order check, local
\* test, dryrun test, existence test, pull spawn; the pull subcommand is
\* spawned only if check() succeeded in that call, the URL is not local,
\* dryrun is false and the path does not exist; with dryrun=true the
\* existence of the path is not examined.
C10_PullOrder ==
  last.op = "pull" =>
    /\ PullSteps(last) = SubSeq(PullOrder, 1, Len(PullSteps(last)))
    /\ PullCount(last) >= 1 =>
         (last.chk = "ok" /\ ~is_local(last.url) /\ ~last.dryrun
          /\ ~last.existed)
    /\ last.dryrun => Count(last.steps, "exists") = 0

C10_Witness ==
  /\ last.op = "pull" /\ last.dryrun /\ ~is_local(last.url) /\ last.existed
  /\ last.result = "ok"

(* ====================== properties: shellcmd =========================== *)
\* POSIX shell word splitting of a command line made of plain characters,
\* spaces, single quotes and backslashes: the words, and whether every
\* quote is closed.  A quoted stretch and a run of plain characters are
\* each taken in one step.
RECURSIVE ShScan(_, _, _, _, _)
ShScan(s, i, cur, started, words) ==
  IF i > Len(s)
  THEN [ok |-> TRUE, words |-> IF started THEN Append(words, cur) ELSE words]
  ELSE IF s[i] = " "
  THEN ShScan(s, i + 1, <<>>, FALSE,
              IF started THEN Append(words, cur) ELSE words)
  ELSE IF s[i] = "'"
  THEN LET close == {j \in (i + 1)..Len(s) : s[j] = "'"}
       IN IF close = {} THEN [ok |-> FALSE, words |-> words]
          ELSE LET j == CHOOSE x \in close : \A y \in close : x <= y
               IN ShScan(s, j + 1, cur \o SubSeq(s, i + 1, j - 1), TRUE,
                         words)
  ELSE IF s[i] = "\\" /\ i < Len(s)
  THEN ShScan(s, i + 2, Append(cur, s[i + 1]), TRUE, words)
  ELSE LET stop == {j \in (i + 1)..Len(s) : s[j] \in {" ", "'", "\\"}}
           j == IF stop = {} THEN Len(s) + 1
                ELSE CHOOSE x \in stop : \A y \in stop : x <= y
       IN ShScan(s, j, cur \o SubSeq(s, i, j - 1), TRUE, words)

ShWords(s) == ShScan(s, 1, <<>>, FALSE, <<>>)

Quotes(s) == Cardinality({i \in 1..Len(s) : s[i] = "'"})

\* the reading of an escaped text: each '\'' stands for one single quote
RECURSIVE Unescape(_)
Unescape(s) ==
  IF s = <<>> THEN <<>>
  ELSE IF startswith(s, <<"'", "\\", "'", "'">>)
  THEN <<"'">> \o Unescape(SubSeq(s, 5, Len(s)))
  ELSE <<s[1]>> \o Unescape(Tail(s))

WorkdirGiven(a) == a.workdir_passed /\ Truthy(a.container_workdir)

\* C7: the command has `-w <dir>` and the mount of the host's working
\* directory on /data iff a container working directory is given; with the
\* argument omitted or passed as no value it has neither.
C7_WorkdirIffGiven ==
  cmdOut # None =>
    /\ contains(cmdOut[1], <<" ", "-", "w", " ">>) <=> WorkdirGiven(cmdIn)
    /\ contains(cmdOut[1], <<":", "/", "d", "a", "t", "a">>)
         <=> WorkdirGiven(cmdIn)

\* C8: every single quote of the inner command becomes the four characters
\* '\'' and the result stands between single quotes after `<shell> -c`; a
\* shell reads the command line as the words <envvars> nerdctl run --rm
\* <args> <img_path> <shell> -c <cmd>, the last word being the original
\* command.
C8_QuotingRoundTrip ==
  cmdOut # None =>
    LET out == cmdOut[1]
        w == ShWords(out)
        n == Len(w.words)
        k == Len(cmdIn.envvars.items)
        e == Len(cmdIn.cmd) + 3 * Quotes(cmdIn.cmd)
        inner == SubSeq(out, Len(out) - e, Len(out) - 1)
        sh == IF cmdIn.shell_executable.t = "None" THEN <<"s", "h">>
              ELSE <<"b", "a", "s", "h">>
    IN /\ w.ok
       /\ n >= k + 7
       /\ w.words[n] = cmdIn.cmd
       /\ w.words[n - 1] = <<"-", "c">>
       /\ w.words[n - 2] = sh
       /\ w.words[n - 3] = cmdIn.img_path
       /\ \A i \in 1..k :
            startswith(w.words[i],
                       <<"D","O","C","K","E","R","E","N","V","_">>
                         \o cmdIn.envvars.items[i][1] \o <<"=">>)
       /\ w.words[k + 1] = <<"n","e","r","d","c","t","l">>
       /\ w.words[k + 2] = <<"r", "u", "n">>
       /\ w.words[k + 3] = <<"-", "-", "r", "m">>
       /\ out[Len(out)] = "'"
       /\ SubSeq(out, Len(out) - e - 5, Len(out) - e - 1)
            = <<" ", "-", "c", " ", "'">>
       /\ Quotes(inner) = 3 * Quotes(cmdIn.cmd)
       /\ Unescape(inner) = cmdIn.cmd

C8_Witness ==
  /\ cmdOut # None
  /\ cmdIn.cmd = <<"a", "'", "\\">>
  /\ cmdIn.workdir_passed /\ cmdIn.container_workdir = PyStr(<<"/", "w">>)

====
